---- MODULE Spec2Model ----
(***************************************************************************)
(* State-machine model of the SNIP-20 reference token contract             *)
(* (src/src/contract.rs): init, the handle requests and the authenticated  *)
(* queries, acting on the contract's key-value storage.                    *)
(*                                                                         *)
(* The storage is modelled as the handlers write it: a handler that        *)
(* returns Err after a write has left that write in `deps.storage`.        *)
(***************************************************************************)
EXTENDS Integers, Sequences, FiniteSets, TLC

VARIABLES
    phase,            \* "new" before init, "ready" after Ok, "init_failed" after Err,
                      \* "aborted" once a request has panicked
    overflow_checks,  \* build setting: TRUE = arithmetic overflow panics, FALSE = wraps
    constants,        \* Config constants {name, symbol, decimals}, or NoConstants
    balances,         \* Balances store: account -> amount (absent entry reads as 0)
    total_supply,     \* Config total supply
    allowances,       \* allowance store: <<owner, spender>> -> amount (absent reads 0)
    viewing_keys,     \* viewing-key store: account -> key material, or NoKey
    receiver_hashes,  \* receiver registrations: account -> code hash, or NoHash
    transfers,        \* transfer log, oldest first
    request,          \* the request that ran last: its variant ("Init", a HandleMsg or
                      \* QueryMsg variant) and env.message.sender ("" for init and queries)
    response,         \* what the last init / handle / query returned
    trace             \* storage reads and key comparisons done by the last query

vars == <<phase, overflow_checks, constants, balances, total_supply, allowances,
          viewing_keys, receiver_hashes, transfers, request, response, trace>>

(***************************************************************************)
(* Bounds of the model.                                                    *)
(***************************************************************************)
\* Stand-in for u128::MAX: amounts range over 0..U128Max and wrap modulo U128Max + 1.
U128Max == 3
\* Longest transfer log the specifications let the contract build.
MaxTransfers == 1

(***************************************************************************)
(* Program constants.                                                      *)
(***************************************************************************)
MinNameLen == 3
MaxNameLen == 30
MinSymbolLen == 3
MaxSymbolLen == 6
MaxDecimals == 18

(***************************************************************************)
(* Values.                                                                 *)
(***************************************************************************)
Addr == {"A", "B", "C"}          \* human addresses the resolver accepts
BadAddr == "?"                   \* a human address the resolver rejects
HumanAddr == Addr \cup {BadAddr}
Amounts == 0..U128Max

NoConstants == [name |-> <<>>, symbol |-> <<>>, decimals |-> 0, set |-> FALSE]
\* Option<Vec<u8>> of the viewing-key store.
NoKey == [is_some |-> FALSE, bytes |-> <<>>]
Some(bytes) == [is_some |-> TRUE, bytes |-> bytes]
NoHash == "NoHash"

\* api.canonical_address: fallible resolution of a human address.
canonical_address_ok(h) == h \in Addr

(***************************************************************************)
(* Responses.                                                              *)
(***************************************************************************)
\* The body of a response: nothing, a HandleAnswer with its status, or query output.
NoData == [kind |-> "None"]
HandleAnswer(answer, status) == [kind |-> "HandleAnswer", answer |-> answer, status |-> status]
Text(bytes) == [kind |-> "Text", text |-> bytes]

NoResponse == [result |-> "None", error |-> "", messages |-> <<>>, data |-> NoData]
Ok(messages, data) == [result |-> "Ok", error |-> "", messages |-> messages, data |-> data]
Err(e) == [result |-> "Err", error |-> e, messages |-> <<>>, data |-> NoData]
Panic(e) == [result |-> "Panic", error |-> e, messages |-> <<>>, data |-> NoData]


(***************************************************************************)
(* Checked and unchecked u128 arithmetic.                                  *)
(***************************************************************************)
Modulus == U128Max + 1
\* `a += b` on u128: ok is FALSE when the exact result does not fit.
add_assign(a, b) == [ok |-> a + b <= U128Max, value |-> (a + b) % Modulus]
\* `a -= b` on u128.
sub_assign(a, b) == [ok |-> a >= b, value |-> (a - b + Modulus) % Modulus]
\* u128::checked_add
checked_add(a, b) == [ok |-> a + b <= U128Max, value |-> IF a + b <= U128Max THEN a + b ELSE 0]

(***************************************************************************)
(* Validation helpers.                                                     *)
(***************************************************************************)
is_valid_name(name) == MinNameLen <= Len(name) /\ Len(name) <= MaxNameLen

is_valid_symbol(symbol) ==
    /\ MinSymbolLen <= Len(symbol) /\ Len(symbol) <= MaxSymbolLen
    /\ \A i \in 1..Len(symbol) : 65 <= symbol[i] /\ symbol[i] <= 90

(***************************************************************************)
(* Storage helpers (state.rs).                                             *)
(***************************************************************************)
\* Balances::account_amount / ReadonlyBalances::account_amount
account_amount(bal, account) == bal[account]
\* Balances::set_account_balance
set_account_balance(bal, account, amount) == [bal EXCEPT ![account] = amount]
\* read_allowance / write_allowance
read_allowance(alw, owner, spender) == alw[<<owner, spender>>]
write_allowance(alw, owner, spender, amount) == [alw EXCEPT ![<<owner, spender>>] = amount]
\* store_transfer: one record per successful movement, appended to the log.
store_transfer(log, from, to, amount, symbol) ==
    Append(log, [from |-> from, to |-> to, amount |-> amount, symbol |-> symbol])
\* get_receiver_hash / set_receiver_hash
get_receiver_hash(hashes, account) == hashes[account]
set_receiver_hash(hashes, account, code_hash) == [hashes EXCEPT ![account] = code_hash]

(***************************************************************************)
(* init                                                                    *)
(***************************************************************************)
\* The loop over msg.initial_balances: each entry overwrites the account's
\* balance and is added to the running total.  The loop stops at an address
\* the resolver rejects and at an addition that panics; balances written
\* before that stay written.
RECURSIVE init_balances(_, _, _, _)
init_balances(list, bal, total, checks) ==
    IF list = <<>> THEN [outcome |-> "ok", balances |-> bal, total |-> total]
    ELSE LET b == Head(list) IN
         IF ~canonical_address_ok(b.address)
         THEN [outcome |-> "bad_address", balances |-> bal, total |-> total]
         ELSE LET bal2 == set_account_balance(bal, b.address, b.amount)
                  sum  == add_assign(total, b.amount)
              IN IF ~sum.ok /\ checks
                 THEN [outcome |-> "panic", balances |-> bal2, total |-> total]
                 ELSE init_balances(Tail(list), bal2, sum.value, checks)

init(msg) ==
    /\ phase = "new"
    /\ LET loop == init_balances(msg.initial_balances, balances, 0, overflow_checks)
           failure ==
               IF loop.outcome = "bad_address" THEN Err("invalid address")
               ELSE IF loop.outcome = "panic" THEN Panic("attempt to add with overflow")
               ELSE IF ~is_valid_name(msg.name) THEN Err("invalid name")
               ELSE IF ~is_valid_symbol(msg.symbol) THEN Err("invalid symbol")
               ELSE IF msg.decimals > MaxDecimals THEN Err("invalid decimals")
               ELSE NoResponse
       IN /\ balances' = loop.balances
          /\ IF failure = NoResponse
             THEN /\ constants' = [name |-> msg.name, symbol |-> msg.symbol,
                                   decimals |-> msg.decimals, set |-> TRUE]
                  /\ total_supply' = loop.total
                  /\ phase' = "ready"
                  /\ response' = Ok(<<>>, NoData)
             ELSE /\ UNCHANGED <<constants, total_supply>>
                  /\ phase' = IF failure.result = "Panic" THEN "aborted" ELSE "init_failed"
                  /\ response' = failure
    /\ request' = [variant |-> "Init", sender |-> ""]
    /\ trace' = <<>>
    /\ UNCHANGED <<overflow_checks, allowances, viewing_keys, receiver_hashes, transfers>>


(***************************************************************************)
(* perform_transfer: debit `from`, write it, then credit `to` with an      *)
(* overflow check.  Returns the balances store as the function leaves it.  *)
(***************************************************************************)
\* perform_transfer crediting the balance `to` had before the debit was written.
perform_transfer_stale_credit(bal, from, to, amount) ==
    LET from_balance == account_amount(bal, from) IN
    IF from_balance < amount
    THEN [ok |-> FALSE, error |-> "Insufficient funds", balances |-> bal]
    ELSE LET debited    == set_account_balance(bal, from, from_balance - amount)
             to_balance == checked_add(account_amount(bal, to), amount)
         IN IF ~to_balance.ok
            THEN [ok |-> FALSE, error |-> "too rich", balances |-> debited]
            ELSE [ok |-> TRUE, error |-> "",
                  balances |-> set_account_balance(debited, to, to_balance.value)]

perform_transfer(bal, from, to, amount) ==
    LET from_balance == account_amount(bal, from) IN
    IF from_balance < amount
    THEN [ok |-> FALSE, error |-> "Insufficient funds", balances |-> bal]
    ELSE LET debited    == set_account_balance(bal, from, from_balance - amount)
             to_balance == checked_add(account_amount(debited, to), amount)
         IN IF ~to_balance.ok
            THEN [ok |-> FALSE, error |-> "too rich", balances |-> debited]
            ELSE [ok |-> TRUE, error |-> "",
                  balances |-> set_account_balance(debited, to, to_balance.value)]

Request(variant, sender) == [variant |-> variant, sender |-> sender]

(***************************************************************************)
(* Frame of a handle request: the build setting and the phase stay, unless *)
(* the request panics.                                                     *)
(***************************************************************************)
Returns(variant, sender, r) ==
    /\ request' = Request(variant, sender)
    /\ response' = r
    /\ trace' = <<>>
    /\ phase' = IF r.result = "Panic" THEN "aborted" ELSE phase
    /\ UNCHANGED overflow_checks

(***************************************************************************)
(* try_transfer_impl, try_transfer, try_send                               *)
(***************************************************************************)
\* try_transfer_impl with the parties of the stored record exchanged.
try_transfer_impl_swapped_record(sender, recipient, amount) ==
    IF ~canonical_address_ok(recipient)
    THEN [ok |-> FALSE, error |-> "invalid address", balances |-> balances, log |-> transfers]
    ELSE LET t == perform_transfer(balances, sender, recipient, amount) IN
         IF ~t.ok
         THEN [ok |-> FALSE, error |-> t.error, balances |-> t.balances, log |-> transfers]
         ELSE [ok |-> TRUE, error |-> "", balances |-> t.balances,
               log |-> store_transfer(transfers, recipient, sender, amount, constants.symbol)]

\* The balances and log after try_transfer_impl, and its error if any.
try_transfer_impl(sender, recipient, amount) ==
    IF ~canonical_address_ok(recipient)
    THEN [ok |-> FALSE, error |-> "invalid address", balances |-> balances, log |-> transfers]
    ELSE LET t == perform_transfer(balances, sender, recipient, amount) IN
         IF ~t.ok
         THEN [ok |-> FALSE, error |-> t.error, balances |-> t.balances, log |-> transfers]
         ELSE IF ~constants.set
         THEN [ok |-> FALSE, error |-> "not found", balances |-> t.balances, log |-> transfers]
         ELSE [ok |-> TRUE, error |-> "", balances |-> t.balances,
               log |-> store_transfer(transfers, sender, recipient, amount, constants.symbol)]

try_transfer(sender, recipient, amount) ==
    /\ phase = "ready"
    /\ LET t == try_transfer_impl(sender, recipient, amount) IN
       /\ balances' = t.balances
       /\ transfers' = t.log
       /\ Returns("Transfer", sender, IF t.ok THEN Ok(<<>>, HandleAnswer("Transfer", "Success")) ELSE Err(t.error))
    /\ UNCHANGED <<constants, total_supply, allowances, viewing_keys, receiver_hashes>>

\* try_send looking up the sender's registration instead of the recipient's.
try_send_own_registration(sender, recipient, amount, msg) ==
    /\ phase = "ready"
    /\ LET t == try_transfer_impl(sender, recipient, amount)
           receiver_hash == get_receiver_hash(receiver_hashes, sender)
           messages ==
               IF receiver_hash # NoHash
               THEN << [msg |-> msg, callback_code_hash |-> receiver_hash,
                        contract_addr |-> recipient] >>
               ELSE <<>>
       IN /\ balances' = t.balances
          /\ transfers' = t.log
          /\ Returns("Send", sender, IF t.ok THEN Ok(messages, HandleAnswer("Send", "Success")) ELSE Err(t.error))
    /\ UNCHANGED <<constants, total_supply, allowances, viewing_keys, receiver_hashes>>

try_send(sender, recipient, amount, msg) ==
    /\ phase = "ready"
    /\ LET t == try_transfer_impl(sender, recipient, amount)
           receiver_hash == get_receiver_hash(receiver_hashes, recipient)
           messages ==
               IF receiver_hash # NoHash
               THEN << [msg |-> msg, callback_code_hash |-> receiver_hash,
                        contract_addr |-> recipient] >>
               ELSE <<>>
       IN /\ balances' = t.balances
          /\ transfers' = t.log
          /\ Returns("Send", sender, IF t.ok THEN Ok(messages, HandleAnswer("Send", "Success")) ELSE Err(t.error))
    /\ UNCHANGED <<constants, total_supply, allowances, viewing_keys, receiver_hashes>>

(***************************************************************************)
(* try_register_receive                                                    *)
(***************************************************************************)
try_register_receive(sender, code_hash) ==
    /\ phase = "ready"
    /\ receiver_hashes' = set_receiver_hash(receiver_hashes, sender, code_hash)
    /\ Returns("RegisterReceive", sender, Ok(<<>>, HandleAnswer("RegisterReceive", "Success")))
    /\ UNCHANGED <<constants, balances, total_supply, allowances, viewing_keys, transfers>>

(***************************************************************************)
(* try_approve, try_transfer_from                                          *)
(***************************************************************************)
try_approve(sender, spender, amount) ==
    /\ phase = "ready"
    /\ IF ~canonical_address_ok(spender)
       THEN /\ Returns("Approve", sender, Err("invalid address"))
            /\ UNCHANGED allowances
       ELSE /\ allowances' = write_allowance(allowances, sender, spender, amount)
            /\ Returns("Approve", sender, Ok(<<>>, NoData))
    /\ UNCHANGED <<constants, balances, total_supply, viewing_keys, receiver_hashes, transfers>>

\* try_transfer_from without the decrement of the allowance.
try_transfer_from_keeps_allowance(sender, owner, recipient, amount) ==
    /\ phase = "ready"
    /\ IF ~canonical_address_ok(owner) \/ ~canonical_address_ok(recipient)
       THEN /\ Returns("TransferFrom", sender, Err("invalid address"))
            /\ UNCHANGED <<allowances, balances, transfers>>
       ELSE LET allowance == read_allowance(allowances, owner, sender) IN
            IF allowance < amount
            THEN /\ Returns("TransferFrom", sender, Err("Insufficient allowance"))
                 /\ UNCHANGED <<allowances, balances, transfers>>
            ELSE LET t == perform_transfer(balances, owner, recipient, amount) IN
                 /\ allowances' = write_allowance(allowances, owner, sender, allowance)
                 /\ balances' = t.balances
                 /\ IF ~t.ok
                    THEN /\ Returns("TransferFrom", sender, Err(t.error))
                         /\ UNCHANGED transfers
                    ELSE /\ transfers' = store_transfer(transfers, owner, recipient, amount,
                                                        constants.symbol)
                         /\ Returns("TransferFrom", sender, Ok(<<>>, NoData))
    /\ UNCHANGED <<constants, total_supply, viewing_keys, receiver_hashes>>

try_transfer_from(sender, owner, recipient, amount) ==
    /\ phase = "ready"
    /\ IF ~canonical_address_ok(owner) \/ ~canonical_address_ok(recipient)
       THEN /\ Returns("TransferFrom", sender, Err("invalid address"))
            /\ UNCHANGED <<allowances, balances, transfers>>
       ELSE LET allowance == read_allowance(allowances, owner, sender) IN
            IF allowance < amount
            THEN /\ Returns("TransferFrom", sender, Err("Insufficient allowance"))
                 /\ UNCHANGED <<allowances, balances, transfers>>
            ELSE LET t == perform_transfer(balances, owner, recipient, amount) IN
                 /\ allowances' = write_allowance(allowances, owner, sender, allowance - amount)
                 /\ balances' = t.balances
                 /\ IF ~t.ok
                    THEN /\ Returns("TransferFrom", sender, Err(t.error))
                         /\ UNCHANGED transfers
                    ELSE IF ~constants.set
                    THEN /\ Returns("TransferFrom", sender, Err("not found"))
                         /\ UNCHANGED transfers
                    ELSE /\ transfers' = store_transfer(transfers, owner, recipient, amount,
                                                        constants.symbol)
                         /\ Returns("TransferFrom", sender, Ok(<<>>, NoData))
    /\ UNCHANGED <<constants, total_supply, viewing_keys, receiver_hashes>>

(***************************************************************************)
(* try_deposit, try_withdraw, try_burn                                     *)
(***************************************************************************)
\* The loop over env.message.sent_funds: the amount of the last "uscrt" coin.
RECURSIVE sent_uscrt(_, _)
sent_uscrt(funds, amount) ==
    IF funds = <<>> THEN amount
    ELSE sent_uscrt(Tail(funds),
                    IF Head(funds).denom = "uscrt" THEN Head(funds).amount ELSE amount)

try_deposit(sender, sent_funds) ==
    /\ phase = "ready"
    /\ LET amount == sent_uscrt(sent_funds, 0)
           account_balance == add_assign(account_amount(balances, sender), amount)
           supply == add_assign(total_supply, amount)
       IN IF amount = 0
          THEN /\ Returns("Deposit", sender, Err("Lol send some funds dude"))
               /\ UNCHANGED <<balances, total_supply>>
          ELSE IF ~account_balance.ok /\ overflow_checks
          THEN /\ Returns("Deposit", sender, Panic("attempt to add with overflow"))
               /\ UNCHANGED <<balances, total_supply>>
          ELSE /\ balances' = set_account_balance(balances, sender, account_balance.value)
               /\ IF ~supply.ok /\ overflow_checks
                  THEN /\ Returns("Deposit", sender, Panic("attempt to add with overflow"))
                       /\ UNCHANGED total_supply
                  ELSE /\ total_supply' = supply.value
                       /\ Returns("Deposit", sender, Ok(<<>>, NoData))
    /\ UNCHANGED <<constants, allowances, viewing_keys, receiver_hashes, transfers>>

try_withdraw(sender, amount) ==
    /\ phase = "ready"
    /\ LET account_balance == account_amount(balances, sender)
           supply == sub_assign(total_supply, amount)
       IN IF account_balance < amount
          THEN /\ Returns("Withdraw", sender, Err("insufficient funds to burn"))
               /\ UNCHANGED <<balances, total_supply>>
          ELSE /\ balances' = set_account_balance(balances, sender, account_balance - amount)
               /\ IF ~supply.ok /\ overflow_checks
                  THEN /\ Returns("Withdraw", sender, Panic("attempt to subtract with overflow"))
                       /\ UNCHANGED total_supply
                  ELSE /\ total_supply' = supply.value
                       /\ Returns("Withdraw", sender, Ok(<< [from_address |-> "contract", to_address |-> sender,
                                         amount |-> << [denom |-> "uscrt",
                                                        amount |-> amount] >>] >>,
                                     NoData))
    /\ UNCHANGED <<constants, allowances, viewing_keys, receiver_hashes, transfers>>

try_burn(sender, amount) ==
    /\ phase = "ready"
    /\ LET account_balance == account_amount(balances, sender)
           supply == sub_assign(total_supply, amount)
       IN IF account_balance < amount
          THEN /\ Returns("Burn", sender, Err("insufficient funds to burn"))
               /\ UNCHANGED <<balances, total_supply>>
          ELSE /\ balances' = set_account_balance(balances, sender, account_balance - amount)
               /\ IF ~supply.ok /\ overflow_checks
                  THEN /\ Returns("Burn", sender, Panic("attempt to subtract with overflow"))
                       /\ UNCHANGED total_supply
                  ELSE /\ total_supply' = supply.value
                       /\ Returns("Burn", sender, Ok(<<>>, HandleAnswer("Burn", "Success")))
    /\ UNCHANGED <<constants, allowances, viewing_keys, receiver_hashes, transfers>>

(***************************************************************************)
(* Viewing keys (viewing_key.rs, state.rs).  A key is its byte string.     *)
(***************************************************************************)
\* The fixed dummy the query compares against when no key is stored.
DummyKey == <<0, 0>>
\* ViewingKey::is_valid: non-empty and within the length envelope.
is_valid(key) == Len(key) = Len(DummyKey)
\* ViewingKey::new: derived from the request context and the entropy.
ViewingKey_new(context, entropy) == <<1, (context + entropy) % 2>>
\* ViewingKey::check_viewing_key: compare the candidate with stored key material.
check_viewing_key(key, stored) == key = stored
\* read_viewing_key / write_viewing_key
read_viewing_key(keys, account) == keys[account]
write_viewing_key(keys, account, key) == [keys EXCEPT ![account] = Some(key)]

\* try_set_key storing the key before validating it.
try_set_key_stores_unvalidated(sender, key) ==
    /\ phase = "ready"
    /\ viewing_keys' = write_viewing_key(viewing_keys, sender, key)
    /\ IF ~is_valid(key)
       THEN Returns("SetViewingKey", sender, Ok(<<>>, HandleAnswer("SetViewingKey", "Failure")))
       ELSE Returns("SetViewingKey", sender, Ok(<<>>, HandleAnswer("SetViewingKey", "Success")))
    /\ UNCHANGED <<constants, balances, total_supply, allowances, receiver_hashes, transfers>>

try_set_key(sender, key) ==
    /\ phase = "ready"
    /\ IF ~is_valid(key)
       THEN /\ Returns("SetViewingKey", sender, Ok(<<>>, HandleAnswer("SetViewingKey", "Failure")))
            /\ UNCHANGED viewing_keys
       ELSE /\ viewing_keys' = write_viewing_key(viewing_keys, sender, key)
            /\ Returns("SetViewingKey", sender, Ok(<<>>, HandleAnswer("SetViewingKey", "Success")))
    /\ UNCHANGED <<constants, balances, total_supply, allowances, receiver_hashes, transfers>>

\* try_create_key storing the new key under a fixed account instead of the sender's.
try_create_key_wrong_account(sender, context, entropy) ==
    /\ phase = "ready"
    /\ viewing_keys' = write_viewing_key(viewing_keys, "A", ViewingKey_new(context, entropy))
    /\ Returns("CreateViewingKey", sender, Ok(<<>>, HandleAnswer("CreateViewingKey", "Success")))
    /\ UNCHANGED <<constants, balances, total_supply, allowances, receiver_hashes, transfers>>

try_create_key(sender, context, entropy) ==
    /\ phase = "ready"
    /\ viewing_keys' = write_viewing_key(viewing_keys, sender, ViewingKey_new(context, entropy))
    /\ Returns("CreateViewingKey", sender, Ok(<<>>, HandleAnswer("CreateViewingKey", "Success")))
    /\ UNCHANGED <<constants, balances, total_supply, allowances, receiver_hashes, transfers>>

(***************************************************************************)
(* query                                                                   *)
(***************************************************************************)
Denial == "Wrong viewing key for this address or viewing key not set"

RECURSIVE Pow10(_)
Pow10(n) == IF n = 0 THEN 1 ELSE 10 * Pow10(n - 1)
\* to_display_token: the amount as a decimal with `decimals` places, and the symbol.
to_display_token(amount, symbol, decimals) ==
    [kind |-> "Balance", whole |-> amount \div Pow10(decimals),
     frac |-> amount % Pow10(decimals), symbol |-> symbol]

\* get_transfers: the records `account` is a party of, from `start`, at most `count`.
RECURSIVE records_of(_, _)
records_of(log, account) ==
    IF log = <<>> THEN <<>>
    ELSE IF Head(log).from = account \/ Head(log).to = account
         THEN <<Head(log)>> \o records_of(Tail(log), account)
         ELSE records_of(Tail(log), account)
get_transfers(log, account, start, count) ==
    LET own == records_of(log, account)
        last == IF start + count < Len(own) THEN start + count ELSE Len(own)
    IN IF start >= Len(own) THEN <<>> ELSE SubSeq(own, start + 1, last)

\* query_result returning the denial at once, without a comparison, when no
\* key is stored for the account.
query_result_short_circuit(msg) ==
    IF ~canonical_address_ok(msg.address)
    THEN [response |-> Err("invalid address"), did |-> <<>>]
    ELSE
    LET expected_key == read_viewing_key(viewing_keys, msg.address) IN
    IF ~expected_key.is_some
    THEN [response |-> Ok(<<>>, Text(Denial)), did |-> <<>>]
    ELSE IF ~check_viewing_key(msg.key, expected_key.bytes)
    THEN [response |-> Ok(<<>>, Text(Denial)), did |-> <<"check_stored">>]
    ELSE IF msg.type = "Balance"
    THEN [response |-> Ok(<<>>, to_display_token(account_amount(balances, msg.address),
                                                 constants.symbol, constants.decimals)),
          did |-> <<"check_stored", "read_balance", "read_constants">>]
    ELSE [response |-> Ok(<<>>, [kind |-> "Transfers",
                                 records |-> get_transfers(transfers, msg.address,
                                                           msg.start, msg.n)]),
          did |-> <<"check_stored", "read_transfers">>]

\* What the query returns and what it did on the way: `did` lists the key
\* comparisons and the ledger / log reads in the order the code makes them.
query_result(msg) ==
    IF ~canonical_address_ok(msg.address)
    THEN [response |-> Err("invalid address"), did |-> <<>>]
    ELSE
    LET expected_key == read_viewing_key(viewing_keys, msg.address) IN
    IF ~expected_key.is_some /\ ~check_viewing_key(msg.key, DummyKey)
    THEN [response |-> Ok(<<>>, Text(Denial)), did |-> <<"check_dummy">>]
    ELSE
    LET before == IF ~expected_key.is_some THEN <<"check_dummy">> ELSE <<>> IN
    IF ~expected_key.is_some
    THEN [response |-> Panic("unwrap on None"), did |-> before]
    ELSE IF ~check_viewing_key(msg.key, expected_key.bytes)
    THEN [response |-> Ok(<<>>, Text(Denial)), did |-> before \o <<"check_stored">>]
    ELSE IF msg.type = "Balance"
    THEN IF ~constants.set
         THEN [response |-> Err("not found"),
               did |-> before \o <<"check_stored", "read_balance", "read_constants">>]
         ELSE [response |-> Ok(<<>>, to_display_token(account_amount(balances, msg.address),
                                                      constants.symbol, constants.decimals)),
               did |-> before \o <<"check_stored", "read_balance", "read_constants">>]
    ELSE [response |-> Ok(<<>>, [kind |-> "Transfers",
                                 records |-> get_transfers(transfers, msg.address,
                                                           msg.start, msg.n)]),
          did |-> before \o <<"check_stored", "read_transfers">>]

query(msg) ==
    /\ phase = "ready"
    /\ LET q == query_result(msg) IN
       /\ request' = [variant |-> msg.type, sender |-> ""]
       /\ response' = q.response
       /\ trace' = q.did
       /\ phase' = IF q.response.result = "Panic" THEN "aborted" ELSE phase
    /\ UNCHANGED <<overflow_checks, constants, balances, total_supply, allowances,
                   viewing_keys, receiver_hashes, transfers>>

(***************************************************************************)
(* Initial state: empty storage, nothing returned yet.                     *)
(***************************************************************************)
Init ==
    /\ phase = "new"
    /\ overflow_checks \in BOOLEAN
    /\ constants = NoConstants
    /\ balances = [a \in Addr |-> 0]
    /\ total_supply = 0
    /\ allowances = [p \in Addr \X Addr |-> 0]
    /\ viewing_keys = [a \in Addr |-> NoKey]
    /\ receiver_hashes = [a \in Addr |-> NoHash]
    /\ transfers = <<>>
    /\ request = [variant |-> "None", sender |-> ""]
    /\ response = NoResponse
    /\ trace = <<>>

(***************************************************************************)
(* Requests the specifications draw from.                                  *)
(***************************************************************************)
TokenName == <<84, 111, 107, 101, 110>>     \* "Token"
ShortName == <<84, 84>>                     \* "TT": too short
TokenSymbol == <<84, 83, 84>>               \* "TST"
LowerSymbol == <<116, 115, 116>>            \* "tst": not upper case

InitialBalance(address, amount) == [address |-> address, amount |-> amount]
InitMsg(name, symbol, decimals, initial_balances) ==
    [name |-> name, symbol |-> symbol, decimals |-> decimals,
     initial_balances |-> initial_balances]

\* Initial balances over `addrs`: lists of at most two entries, so that an
\* address can be named twice and two amounts can exceed U128Max together.
BalanceLists(addrs) ==
    LET Entry == {InitialBalance(a, k) : a \in addrs, k \in {1, U128Max}}
    IN {<<>>} \cup {<<e>> : e \in Entry} \cup {<<e, f>> : e \in Entry, f \in Entry}

\* A well-formed token with the given initial balances.
TokenInit(list) == InitMsg(TokenName, TokenSymbol, 2, list)

Coin(denom, amount) == [denom |-> denom, amount |-> amount]
\* Funds sent with a Deposit: none, one coin, or two coins of either denomination.
FundsLists ==
    LET Coins == {Coin(d, k) : d \in {"uscrt", "other"}, k \in {0, 1, U128Max}}
    IN {<<>>} \cup {<<c>> : c \in Coins}
       \cup {<<c, Coin("other", 1)>> : c \in Coins}

\* Candidate viewing keys: empty, the all-zero bytes, and three others.
Keys == {<<>>, <<0, 0>>, <<0, 1>>, <<1, 0>>, <<1, 1>>}

BalanceQuery(address, key) ==
    [type |-> "Balance", address |-> address, key |-> key, start |-> 0, n |-> 0]
TransfersQuery(address, key, start, n) ==
    [type |-> "Transfers", address |-> address, key |-> key, start |-> start, n |-> n]

(***************************************************************************)
(* The ledger: init with every kind of message, and the requests that      *)
(* change the total supply, with a transfer between two accounts.          *)
(***************************************************************************)
Holders == {"A", "B"}

LedgerInit ==
    \E name \in {TokenName, ShortName}, symbol \in {TokenSymbol, LowerSymbol},
       decimals \in {2, 19},
       list \in BalanceLists(Holders \cup {BadAddr}) :
        init(InitMsg(name, symbol, decimals, list))

Next ==
    \/ LedgerInit
    \/ \E s \in Holders, funds \in FundsLists : try_deposit(s, funds)
    \/ \E s \in Holders, k \in Amounts : try_withdraw(s, k)
    \/ \E s \in Holders, k \in Amounts : try_burn(s, k)
    \/ \E k \in {1, U128Max} : Len(transfers) < MaxTransfers /\ try_transfer("A", "B", k)

Spec == Init /\ [][Next]_vars

(***************************************************************************)
(* Transfers and allowances: init of a well-formed token, then Transfer,   *)
(* Send, Approve and TransferFrom, with A the owner who approves and C the  *)
(* spender.                                                                *)
(***************************************************************************)
Owners == {"A"}
Spenders == {"C"}

\* Initial balances: A alone, A and B, and A and B with more than U128Max together.
TransferInits ==
    {<<InitialBalance("A", U128Max)>>,
     <<InitialBalance("A", 1), InitialBalance("B", 1)>>,
     <<InitialBalance("A", 1), InitialBalance("B", U128Max)>>}

TransferNext ==
    \/ \E list \in TransferInits : init(TokenInit(list))
    \/ \E s \in Holders, r \in Holders \cup {BadAddr}, k \in Amounts :
            Len(transfers) < MaxTransfers /\ try_transfer(s, r, k)
    \/ \E s \in Holders, r \in Holders \cup {BadAddr}, k \in Amounts :
            Len(transfers) < MaxTransfers /\ try_send(s, r, k, "payload")
    \/ \E s \in Spenders, o \in Owners \cup {BadAddr}, r \in Holders \cup {BadAddr},
          k \in Amounts :
            Len(transfers) < MaxTransfers /\ try_transfer_from(s, o, r, k)
    \/ \E s \in Owners, sp \in Spenders \cup {BadAddr}, k \in Amounts : try_approve(s, sp, k)

SpecTransfer == Init /\ [][TransferNext]_vars

(***************************************************************************)
(* Viewing keys and queries: init of a well-formed token, a transfer to    *)
(* give the log a record, then SetViewingKey, CreateViewingKey and the     *)
(* two queries.                                                            *)
(***************************************************************************)
KeysNext ==
    \/ init(TokenInit(<<InitialBalance("A", U128Max)>>))
    \/ Len(transfers) < MaxTransfers /\ try_transfer("A", "B", 1)
    \/ \E s \in Addr, key \in Keys : try_set_key(s, key)
    \/ \E s \in Addr, context \in 0..1, entropy \in 0..1 : try_create_key(s, context, entropy)
    \/ \E a \in HumanAddr, key \in Keys : query(BalanceQuery(a, key))
    \/ \E a \in HumanAddr, key \in Keys, start \in 0..1 :
            query(TransfersQuery(a, key, start, 1))

SpecKeys == Init /\ [][KeysNext]_vars

(***************************************************************************)
(* Send and receiver registrations: init of a well-formed token, then      *)
(* RegisterReceive, Send and Transfer between A and B.                     *)
(***************************************************************************)
CodeHashes == {"hash1", "hash2"}
Payloads == {"payload", "other"}

SendNext ==
    \/ \E list \in TransferInits : init(TokenInit(list))
    \/ \E s \in Holders, code_hash \in CodeHashes : try_register_receive(s, code_hash)
    \/ \E s \in Holders, r \in Holders \cup {BadAddr}, k \in Amounts, msg \in Payloads :
            Len(transfers) < MaxTransfers /\ try_send(s, r, k, msg)
    \/ \E s \in Holders, r \in Holders, k \in Amounts :
            Len(transfers) < MaxTransfers /\ try_transfer(s, r, k)

SpecSend == Init /\ [][SendNext]_vars

(***************************************************************************)
(* Allowances and the supply: init of a well-formed token, then Deposit    *)
(* and Withdraw by the owner A, Approve by A and TransferFrom by the       *)
(* spender C.                                                              *)
(***************************************************************************)
AllowanceNext ==
    \/ \E list \in TransferInits : init(TokenInit(list))
    \/ \E s \in Owners, funds \in {<<>>, <<Coin("uscrt", 1)>>} : try_deposit(s, funds)
    \/ \E s \in Owners, k \in Amounts : try_withdraw(s, k)
    \/ \E s \in Owners, sp \in Spenders, k \in Amounts : try_approve(s, sp, k)
    \/ \E s \in Spenders, o \in Owners, r \in Holders, k \in Amounts :
            Len(transfers) < MaxTransfers /\ try_transfer_from(s, o, r, k)

SpecAllowance == Init /\ [][AllowanceNext]_vars

(***************************************************************************)
(* Properties.                                                             *)
(***************************************************************************)
RECURSIVE SumOver(_, _)
SumOver(f, S) ==
    IF S = {} THEN 0
    ELSE LET a == CHOOSE x \in S : TRUE IN f[a] + SumOver(f, S \ {a})
SumBalances(bal) == SumOver(bal, Addr)

\* The balances after `k` has moved from `from` to `to`.
Moved(bal, from, to, k) ==
    IF from = to THEN bal ELSE [bal EXCEPT ![from] = @ - k, ![to] = @ + k]
\* The record of a movement of `k` from `from` to `to`.
Record(from, to, k) == [from |-> from, to |-> to, amount |-> k, symbol |-> constants.symbol]
\* The failures of perform_transfer.
TransferFailures == {"Insufficient funds", "too rich"}
\* A Transfer, Send or TransferFrom request moving `k` from `from` to `to`.
TransferStep(from, to, k) ==
    \/ try_transfer(from, to, k)
    \/ try_send(from, to, k, "payload")
    \/ \E spender \in Addr : try_transfer_from(spender, from, to, k)

\* C1: after init and after every completed request the sum of all account
\* balances equals the total supply, whatever the init message was.
C1_SupplyIsSumOfBalances ==
    (phase = "ready" /\ response.result = "Ok") => SumBalances(balances) = total_supply

\* C2: a Transfer, Send or TransferFrom request, successful or failed, leaves
\* the sum of all balances and the total supply as they were, and a
\* successful one moves exactly the amount from the source to the destination.
C2_TransfersConserveBalances ==
    [][\A from \in Addr, to \in HumanAddr, k \in Amounts :
          TransferStep(from, to, k) =>
              /\ SumBalances(balances') = SumBalances(balances)
              /\ total_supply' = total_supply
              /\ response'.result = "Ok" => balances' = Moved(balances, from, to, k)]_vars

\* C3: a transfer that fails its insufficient-funds check or its
\* credit-overflow check leaves every balance as it was before the request.
C3_FailedTransferChangesNoBalance ==
    [][(/\ request'.variant \in {"Transfer", "Send", "TransferFrom"}
        /\ response'.result = "Err"
        /\ response'.error \in TransferFailures) => balances' = balances]_vars

\* C4: a TransferFrom whose allowance check passes and whose balance transfer
\* then fails leaves every allowance as it was before the request.
C4_FailedTransferFromKeepsAllowance ==
    [][(/\ request'.variant = "TransferFrom"
        /\ response'.result = "Err"
        /\ response'.error \in TransferFailures) => allowances' = allowances]_vars

\* C5: Approve overwrites the allowance with the approved amount; a
\* TransferFrom of k succeeds only if the allowance is at least k, then lowers
\* it by exactly k and moves k from the owner to the recipient; with an
\* allowance below k it fails with the insufficient-allowance error and
\* changes no allowance, balance or log entry; no allowance goes below 0.
C5_AllowanceGatesTransferFrom ==
    [][/\ request'.variant = "Approve" =>
            \A spender \in Addr, k \in Amounts :
                try_approve(request'.sender, spender, k) =>
                    allowances' = [allowances EXCEPT ![<<request'.sender, spender>>] = k]
       /\ request'.variant = "TransferFrom" =>
            \A owner \in Addr, recipient \in Addr, k \in Amounts :
                try_transfer_from(request'.sender, owner, recipient, k) =>
                    LET allowance == allowances[<<owner, request'.sender>>] IN
                    /\ response'.result = "Ok" =>
                          /\ allowance >= k
                          /\ allowances' =
                                [allowances EXCEPT ![<<owner, request'.sender>>] = allowance - k]
                          /\ balances' = Moved(balances, owner, recipient, k)
                    /\ allowance < k =>
                          /\ response' = Err("Insufficient allowance")
                          /\ UNCHANGED <<allowances, balances, transfers>>
       /\ \A pair \in Addr \X Addr : allowances'[pair] >= 0]_vars

\* C5 witness: a TransferFrom of a positive amount has succeeded.
C5_SpentAllowance ==
    /\ request = Request("TransferFrom", "C")
    /\ response.result = "Ok"
    /\ transfers # <<>>
    /\ transfers[Len(transfers)].amount > 0

\* C6: a successful Transfer, Send or TransferFrom appends exactly one record
\* {from, to, amount, symbol} of the movement, with the owner as `from` in
\* TransferFrom, and a failed one appends nothing.
C6_TransferAppendsOneRecord ==
    [][/\ request'.variant \in {"Transfer", "Send"} =>
            \A recipient \in HumanAddr, k \in Amounts :
                (\/ try_transfer(request'.sender, recipient, k)
                 \/ try_send(request'.sender, recipient, k, "payload")) =>
                    transfers' = IF response'.result = "Ok"
                                 THEN Append(transfers, Record(request'.sender, recipient, k))
                                 ELSE transfers
       /\ request'.variant = "TransferFrom" =>
            \A owner \in HumanAddr, recipient \in HumanAddr, k \in Amounts :
                try_transfer_from(request'.sender, owner, recipient, k) =>
                    transfers' = IF response'.result = "Ok"
                                 THEN Append(transfers, Record(owner, recipient, k))
                                 ELSE transfers]_vars

\* C6 witness: a Send of a positive amount has succeeded and the log holds its record.
C6_SendRecorded ==
    /\ request.variant = "Send"
    /\ response.result = "Ok"
    /\ Len(transfers) = 1
    /\ transfers[1].amount > 0

\* The queries the properties range over.
Queries ==
    {BalanceQuery(a, key) : a \in Addr, key \in Keys}
    \cup {TransfersQuery(a, key, start, 1) : a \in Addr, key \in Keys, start \in 0..1}
\* The ledger and log reads among the steps of a query.
Reads(did) == {i \in 1..Len(did) : did[i] \in {"read_balance", "read_constants", "read_transfers"}}

\* C7: a Balance or Transfers query returns the account's balance or history
\* only when the supplied key verifies against the key stored for the account;
\* in every other case it reads neither ledger nor log and returns the denial.
C7_QueryNeedsVerifiedKey ==
    [][\A msg \in Queries :
          query(msg) =>
              LET stored == viewing_keys[msg.address] IN
              IF stored.is_some /\ check_viewing_key(msg.key, stored.bytes)
              THEN /\ response'.result = "Ok"
                   /\ response'.data.kind = msg.type
              ELSE /\ response' = Ok(<<>>, Text(Denial))
                   /\ Reads(trace') = {}]_vars

\* C8: a query for an account that has no viewing key returns the denial for
\* every candidate key: no data, no other error, no abort.
C8_NoKeyIsDenied ==
    [][\A msg \in Queries :
          (query(msg) /\ ~viewing_keys[msg.address].is_some) =>
              response' = Ok(<<>>, Text(Denial))]_vars

\* C9: SetViewingKey with a key that fails validation answers Failure and
\* leaves every stored key as it was; with a valid key it stores that key
\* for the sender, and for nobody else, and answers Success.
C9_SetViewingKey ==
    [][request'.variant = "SetViewingKey" =>
          \A key \in Keys :
              try_set_key(request'.sender, key) =>
                  IF is_valid(key)
                  THEN /\ viewing_keys' = [viewing_keys EXCEPT ![request'.sender] = Some(key)]
                       /\ check_viewing_key(key, viewing_keys'[request'.sender].bytes)
                       /\ response' = Ok(<<>>, HandleAnswer("SetViewingKey", "Success"))
                  ELSE /\ viewing_keys' = viewing_keys
                       /\ response' = Ok(<<>>, HandleAnswer("SetViewingKey", "Failure"))]_vars

\* C9 witness: a SetViewingKey was answered Failure while a key is stored.
C9_RejectedKey ==
    /\ request = Request("SetViewingKey", "A")
    /\ response.data = HandleAnswer("SetViewingKey", "Failure")
    /\ viewing_keys["A"].is_some

\* C10: an account that has a key keeps having one; its key changes only in
\* a CreateViewingKey or a valid SetViewingKey it sent itself; and after the
\* change exactly one key authenticates, and the replaced one does not.
C10_KeyLifecycle ==
    [][\A a \in Addr :
          /\ viewing_keys[a].is_some => viewing_keys'[a].is_some
          /\ viewing_keys'[a] # viewing_keys[a] =>
                /\ request'.sender = a
                /\ \/ request'.variant = "CreateViewingKey"
                   \/ /\ request'.variant = "SetViewingKey"
                      /\ response'.data = HandleAnswer("SetViewingKey", "Success")
                /\ Cardinality({key \in Keys :
                                  check_viewing_key(key, viewing_keys'[a].bytes)}) = 1
                /\ viewing_keys[a].is_some =>
                      ~check_viewing_key(viewing_keys[a].bytes, viewing_keys'[a].bytes)]_vars

\* C10 witness: A holds a key it set, and B has just created one of its own.
C10_TwoKeysSet ==
    /\ viewing_keys["A"] = Some(<<0, 1>>)
    /\ viewing_keys["B"] = Some(<<1, 1>>)
    /\ request = Request("CreateViewingKey", "B")

\* The callback a Send of `msg` to `recipient` invokes under registration `code_hash`.
Callback(msg, recipient, code_hash) ==
    [msg |-> msg, callback_code_hash |-> code_hash, contract_addr |-> recipient]
\* Whether moving `k` from `from` to `to` passes both checks of a transfer.
CanMove(bal, from, to, k) ==
    /\ to \in Addr
    /\ bal[from] >= k
    /\ from = to \/ bal[to] + k <= U128Max

\* C11: a successful Send moves the balances and appends the record as a
\* Transfer does, and returns one callback (the request's payload, addressed
\* to the recipient, with the recipient's registered code hash) if the
\* recipient has a registration and no effect if it has none; a Send that
\* would succeed as a Transfer succeeds without a registration; and
\* RegisterReceive overwrites the sender's registration only.
C11_SendInvokesRegisteredReceiver ==
    [][/\ request'.variant = "Send" =>
            \A recipient \in HumanAddr, k \in Amounts, msg \in Payloads :
                try_send(request'.sender, recipient, k, msg) =>
                    /\ response'.result = "Ok" =>
                          /\ balances' = Moved(balances, request'.sender, recipient, k)
                          /\ transfers' = Append(transfers, Record(request'.sender, recipient, k))
                          /\ response'.messages =
                                IF receiver_hashes[recipient] # NoHash
                                THEN <<Callback(msg, recipient, receiver_hashes[recipient])>>
                                ELSE <<>>
                    /\ CanMove(balances, request'.sender, recipient, k) =>
                          response'.result = "Ok"
                    /\ receiver_hashes' = receiver_hashes
       /\ request'.variant = "RegisterReceive" =>
            \A code_hash \in CodeHashes :
                try_register_receive(request'.sender, code_hash) =>
                    /\ receiver_hashes' =
                          [receiver_hashes EXCEPT ![request'.sender] = code_hash]
                    /\ response'.result = "Ok"]_vars

\* C11 witness: B registered, A did not, and a Send of a positive amount from
\* A to B has returned the one callback to B.
C11_CallbackReturned ==
    /\ request = Request("Send", "A")
    /\ response.result = "Ok"
    /\ Len(response.messages) = 1
    /\ response.messages[1].contract_addr = "B"
    /\ response.messages[1].callback_code_hash = receiver_hashes["B"]
    /\ receiver_hashes["A"] = NoHash
    /\ transfers # <<>> /\ transfers[Len(transfers)].amount > 0

\* C12: a Burn of k by a sender holding at least k lowers the sender's
\* balance by exactly k and the total supply by exactly k and changes no
\* other balance; with a balance below k it fails with the insufficient-funds
\* error and changes neither a balance nor the total supply.
C12_BurnLowersBalanceAndSupply ==
    [][request'.variant = "Burn" =>
          \A k \in Amounts :
              try_burn(request'.sender, k) =>
                  IF balances[request'.sender] >= k
                  THEN /\ response'.result = "Ok"
                       /\ balances' = [balances EXCEPT ![request'.sender] = @ - k]
                       /\ total_supply' = total_supply - k
                  ELSE /\ response' = Err("insufficient funds to burn")
                       /\ UNCHANGED <<balances, total_supply>>]_vars

\* The effect a Withdraw of k by `sender` returns: one bank transfer of k
\* from the contract to the sender.
BankSend(sender, k) ==
    [from_address |-> "contract", to_address |-> sender,
     amount |-> <<Coin("uscrt", k)>>]

\* C13: a Withdraw of k succeeds only if the sender holds at least k; it then
\* lowers the sender's balance and the total supply by exactly k and returns
\* exactly one native-currency transfer of k from the contract to the
\* sender; with a balance below k it fails, returns no effect and changes no
\* state.
C13_WithdrawPaysOut ==
    [][request'.variant = "Withdraw" =>
          \A k \in Amounts :
              try_withdraw(request'.sender, k) =>
                  IF balances[request'.sender] >= k
                  THEN /\ response'.result = "Ok"
                       /\ balances' = [balances EXCEPT ![request'.sender] = @ - k]
                       /\ total_supply' = total_supply - k
                       /\ response'.messages = <<BankSend(request'.sender, k)>>
                  ELSE /\ response'.result = "Err"
                       /\ response'.messages = <<>>
                       /\ UNCHANGED <<constants, balances, total_supply, allowances,
                                      viewing_keys, receiver_hashes, transfers>>]_vars

\* The amount of the recognized denomination among the funds of a request.
RECURSIVE SentIn(_, _)
SentIn(funds, denom) ==
    IF funds = <<>> THEN 0
    ELSE (IF Head(funds).denom = denom THEN Head(funds).amount ELSE 0)
         + SentIn(Tail(funds), denom)

\* C14: a Deposit carrying no positive amount of uscrt fails with the
\* no-funds-sent error and changes no state, coins of other denominations
\* being ignored; otherwise it raises the sender's balance and the total
\* supply by exactly the amount sent in uscrt and changes no other account.
C14_DepositCreditsSentAmount ==
    [][request'.variant = "Deposit" =>
          \A funds \in FundsLists :
              try_deposit(request'.sender, funds) =>
                  LET sent == SentIn(funds, "uscrt") IN
                  IF sent = 0
                  THEN /\ response' = Err("Lol send some funds dude")
                       /\ UNCHANGED <<constants, balances, total_supply, allowances,
                                      viewing_keys, receiver_hashes, transfers>>
                  ELSE /\ response'.result = "Ok"
                       /\ balances' = [balances EXCEPT ![request'.sender] = @ + sent]
                       /\ total_supply' = total_supply + sent]_vars

\* C15: when init returns a validation error (invalid name, symbol, decimals
\* or address) no balance, no constants and no total supply have been written.
C15_RejectedInitWritesNothing ==
    phase = "init_failed" =>
        /\ balances = [a \in Addr |-> 0]
        /\ constants = NoConstants
        /\ total_supply = 0

\* The state-changing requests.
HandleVariants ==
    {"Deposit", "Withdraw", "Transfer", "Send", "Burn", "RegisterReceive",
     "CreateViewingKey", "SetViewingKey", "Approve", "TransferFrom"}

\* C16: every successful state-changing request returns a response body
\* that carries a status of Success or Failure.
C16_HandleAnswersCarryStatus ==
    (request.variant \in HandleVariants /\ response.result = "Ok") =>
        /\ response.data.kind = "HandleAnswer"
        /\ response.data.status \in {"Success", "Failure"}

\* C19: the balance of an account goes down only in a Transfer, Send, Burn
\* or Withdraw the account sent itself, or in a TransferFrom of a spender
\* whose allowance from the account was at least the amount taken, the
\* allowance going down by that amount; so a spender takes no more from an
\* owner than the owner last approved.
C19_OnlyOwnerOrApprovedSpenderDebits ==
    [][\A a \in Addr :
          balances'[a] < balances[a] =>
              LET taken == balances[a] - balances'[a] IN
              \/ /\ request'.sender = a
                 /\ request'.variant \in {"Transfer", "Send", "Burn", "Withdraw"}
              \/ /\ request'.variant = "TransferFrom"
                 /\ allowances[<<a, request'.sender>>] >= taken
                 /\ allowances'[<<a, request'.sender>>] =
                        allowances[<<a, request'.sender>>] - taken]_vars

\* C18: no balance and no total supply wraps around the unsigned range: the
\* additions of init and Deposit never pass U128Max silently and the
\* subtractions of Burn and Withdraw never pass 0, so that in every state the
\* contract serves requests in, every balance is at most the total supply.
C18_NoWrapAround ==
    phase = "ready" => \A a \in Addr : balances[a] <= total_supply

\* The viewing-key comparisons among the steps of a query.
Comparisons(did) == {i \in 1..Len(did) : did[i] \in {"check_dummy", "check_stored"}}

\* C17: every query for an account makes exactly one viewing-key comparison,
\* and makes it before anything else: against the fixed dummy when no key is
\* stored for the account, against the stored key when one is; no query
\* returns the denial without having compared.
C17_OneComparisonPerQuery ==
    [][request'.variant \in {"Balance", "Transfers"} =>
          \A msg \in Queries :
              query(msg) =>
                  /\ Cardinality(Comparisons(trace')) = 1
                  /\ trace'[1] = IF viewing_keys[msg.address].is_some
                                 THEN "check_stored" ELSE "check_dummy"
                  /\ response' = Ok(<<>>, Text(Denial)) => Comparisons(trace') # {}]_vars

\* C17 witness: a query for an account without a key, while A has one, was
\* denied after the comparison with the dummy.
C17_DeniedAfterDummyComparison ==
    /\ request.variant = "Balance"
    /\ response = Ok(<<>>, Text(Denial))
    /\ trace = <<"check_dummy">>
    /\ viewing_keys["A"].is_some
    /\ ~viewing_keys["B"].is_some /\ ~viewing_keys["C"].is_some

====
